---- MODULE Spec2Model ----
(***************************************************************************)
(* Topic-tree subscriber management (src/main.py): a trie of TreeNode      *)
(* objects, each with a dict of children and a set of subscribers.         *)
(*                                                                         *)
(* A TreeNode object is identified by the sequence of keys that leads to   *)
(* it from the root: every TreeNode() is constructed inside add_subscriber *)
(* and stored under exactly one key of exactly one parent, so the objects  *)
(* and the key paths correspond one to one.  The heap of nodes is the      *)
(* function `tree` from node (key path) to a record with the two fields of *)
(* the class.                                                              *)
(***************************************************************************)
EXTENDS Naturals, Sequences, FiniteSets

\* ------------------------------------------------------------------ bounds
MaxLen    == 2      \* longest topic_list passed to add/remove
MaxOps    == 3      \* number of add_subscriber / remove_subscriber applications
MaxPat    == 2      \* longest query pattern
MaxTopics == 2      \* longest list of topic lists given to add_subscriber_multi
MaxAnyOps == 2      \* applications when the keys may be wildcard tokens
MaxCalls  == 2      \* size of a collection of add_subscriber calls applied in any order

Literals  == {"a", "b"}
Wildcards == {"*", "**"}
Tokens    == Literals \cup Wildcards
Ids       == {"s1", "s2"}

RECURSIVE SeqsOfLen(_, _)
SeqsOfLen(S, k) ==
  IF k = 0 THEN {<< >>}
  ELSE {Append(p, x) : p \in SeqsOfLen(S, k - 1), x \in S}

SeqsUpTo(S, n) == UNION {SeqsOfLen(S, k) : k \in 0..n}

LiteralPaths == SeqsUpTo(Literals, MaxLen)
AnyTokens    == {"a"} \cup Wildcards
AnyPaths     == SeqsUpTo(AnyTokens, MaxLen)
Patterns     == SeqsUpTo(Tokens, MaxPat)

\* ------------------------------------------------------------------ state
VARIABLES
  tree,            \* node (key path from the root) -> [children, subscribers]
  registered,      \* history: <<id, path>> whose latest add/remove on path was an add
  wildSubscribed,  \* history: some add_subscriber was given a wildcard token as a key
  nops,            \* number of add_subscriber / remove_subscriber applications so far
  calls,           \* a collection of add_subscriber calls <<id, path>> to be applied
  applied,         \* the calls of the collection applied so far
  query,           \* the pattern of the get_subscribers call in progress
  stack,           \* its activation records, the outermost first
  visited,         \* history: <<node, pattern>> -> number of invocations with it
  result           \* the set the outermost invocation returned

treeVars  == <<tree, registered, wildSubscribed, nops>>
orderVars == <<calls, applied>>
matchVars == <<query, stack, visited, result>>
vars      == <<treeVars, orderVars, matchVars>>

\* ------------------------------------------------------------------ TreeNode
Root == << >>

TreeNode == [children |-> {}, subscribers |-> {}]

NewTree == [n \in {Root} |-> TreeNode]

Nodes(t) == DOMAIN t

Child(node, topic) == Append(node, topic)

\* node.children[topic] = TreeNode()
CreateChild(t, node, topic) ==
  [n \in DOMAIN t \cup {Child(node, topic)} |->
     IF n = Child(node, topic) THEN TreeNode
     ELSE IF n = node THEN [t[n] EXCEPT !.children = @ \cup {topic}]
     ELSE t[n]]

\* Is `m` the node `n` or one of its descendants?
IsPrefix(n, m) == Len(n) <= Len(m) /\ SubSeq(m, 1, Len(n)) = n

\* ------------------------------------------------------------------ add_subscriber
RECURSIVE AddWalk(_, _, _, _)
AddWalk(t, node, subscriber_id, topic_list) ==
  IF topic_list = << >>
  THEN [t EXCEPT ![node].subscribers = @ \cup {subscriber_id}]
  ELSE LET topic == Head(topic_list)
           t1    == IF topic \notin t[node].children
                    THEN CreateChild(t, node, topic)
                    ELSE t
       IN  AddWalk(t1, Child(node, topic), subscriber_id, Tail(topic_list))

\* Variant: the terminal step toggles the membership instead of adding.
RECURSIVE AddWalkToggle(_, _, _, _)
AddWalkToggle(t, node, subscriber_id, topic_list) ==
  IF topic_list = << >>
  THEN [t EXCEPT ![node].subscribers =
          IF subscriber_id \in @ THEN @ \ {subscriber_id} ELSE @ \cup {subscriber_id}]
  ELSE LET topic == Head(topic_list)
           t1    == IF topic \notin t[node].children
                    THEN CreateChild(t, node, topic)
                    ELSE t
       IN  AddWalkToggle(t1, Child(node, topic), subscriber_id, Tail(topic_list))

add_subscriber_toggle(t, subscriber_id, topic_list) ==
  AddWalkToggle(t, Root, subscriber_id, topic_list)

\* Variant: the walk stores a new TreeNode under the key without looking
\* whether one is there, dropping the subtree that was.
ReplaceChild(t, node, topic) ==
  LET kept == {n \in DOMAIN t : ~IsPrefix(Child(node, topic), n)}
  IN  [n \in kept \cup {Child(node, topic)} |->
         IF n = Child(node, topic) THEN TreeNode
         ELSE IF n = node THEN [t[n] EXCEPT !.children = @ \cup {topic}]
         ELSE t[n]]

RECURSIVE AddWalkReplace(_, _, _, _)
AddWalkReplace(t, node, subscriber_id, topic_list) ==
  IF topic_list = << >>
  THEN [t EXCEPT ![node].subscribers = @ \cup {subscriber_id}]
  ELSE AddWalkReplace(ReplaceChild(t, node, Head(topic_list)),
                      Child(node, Head(topic_list)), subscriber_id, Tail(topic_list))

add_subscriber_replace(t, subscriber_id, topic_list) ==
  AddWalkReplace(t, Root, subscriber_id, topic_list)

\* Variant: the terminal step assigns the set instead of adding to it.
RECURSIVE AddWalkAssign(_, _, _, _)
AddWalkAssign(t, node, subscriber_id, topic_list) ==
  IF topic_list = << >>
  THEN [t EXCEPT ![node].subscribers = {subscriber_id}]
  ELSE LET topic == Head(topic_list)
           t1    == IF topic \notin t[node].children
                    THEN CreateChild(t, node, topic)
                    ELSE t
       IN  AddWalkAssign(t1, Child(node, topic), subscriber_id, Tail(topic_list))

add_subscriber_assign(t, subscriber_id, topic_list) ==
  AddWalkAssign(t, Root, subscriber_id, topic_list)

add_subscriber(t, subscriber_id, topic_list) ==
  AddWalk(t, Root, subscriber_id, topic_list)

\* ------------------------------------------------------------------ remove_subscriber
RECURSIVE RemoveWalk(_, _, _, _)
RemoveWalk(t, node, subscriber_id, topic_list) ==
  IF topic_list = << >>
  THEN [t EXCEPT ![node].subscribers = @ \ {subscriber_id}]
  ELSE LET topic == Head(topic_list)
       IN  IF topic \in t[node].children
           THEN RemoveWalk(t, Child(node, topic), subscriber_id, Tail(topic_list))
           ELSE t

\* Variant: the terminal step empties the node's set.
RECURSIVE RemoveWalkClear(_, _, _, _)
RemoveWalkClear(t, node, subscriber_id, topic_list) ==
  IF topic_list = << >>
  THEN [t EXCEPT ![node].subscribers = {}]
  ELSE LET topic == Head(topic_list)
       IN  IF topic \in t[node].children
           THEN RemoveWalkClear(t, Child(node, topic), subscriber_id, Tail(topic_list))
           ELSE t

remove_subscriber_clear(t, subscriber_id, topic_list) ==
  RemoveWalkClear(t, Root, subscriber_id, topic_list)

\* Variant: the walk creates the missing nodes, as add_subscriber's does.
RECURSIVE RemoveWalkCreate(_, _, _, _)
RemoveWalkCreate(t, node, subscriber_id, topic_list) ==
  IF topic_list = << >>
  THEN [t EXCEPT ![node].subscribers = @ \ {subscriber_id}]
  ELSE LET topic == Head(topic_list)
           t1    == IF topic \notin t[node].children
                    THEN CreateChild(t, node, topic)
                    ELSE t
       IN  RemoveWalkCreate(t1, Child(node, topic), subscriber_id, Tail(topic_list))

remove_subscriber_create(t, subscriber_id, topic_list) ==
  RemoveWalkCreate(t, Root, subscriber_id, topic_list)

remove_subscriber(t, subscriber_id, topic_list) ==
  RemoveWalk(t, Root, subscriber_id, topic_list)

\* ------------------------------------------------------------------ get_subscribers
\* Variant: the one-or-more branch of "**" hands the children the tail, so
\* that "**" covers at most one level.
RECURSIVE get_subscribers_one_level(_, _, _)
get_subscribers_one_level(t, root, topic_list) ==
  IF topic_list = << >> THEN t[root].subscribers
  ELSE LET head == Head(topic_list)
           tail == Tail(topic_list)
       IN  IF head = "*"
           THEN UNION {get_subscribers_one_level(t, Child(root, c), tail) :
                         c \in t[root].children}
           ELSE IF head = "**"
           THEN get_subscribers_one_level(t, root, tail)
                \cup UNION {get_subscribers_one_level(t, Child(root, c), tail) :
                              c \in t[root].children}
           ELSE IF head \in t[root].children
           THEN get_subscribers_one_level(t, Child(root, head), tail)
           ELSE {}

RECURSIVE get_subscribers(_, _, _)
get_subscribers(t, root, topic_list) ==
  IF topic_list = << >> THEN t[root].subscribers
  ELSE LET head == Head(topic_list)
           tail == Tail(topic_list)
       IN  IF head = "*"
           THEN UNION {get_subscribers(t, Child(root, c), tail) : c \in t[root].children}
           ELSE IF head = "**"
           THEN get_subscribers(t, root, tail)
                \cup UNION {get_subscribers(t, Child(root, c), topic_list) :
                              c \in t[root].children}
           ELSE IF head \in t[root].children
           THEN get_subscribers(t, Child(root, head), tail)
           ELSE {}

\* ------------------------------------------------------------------ get_subscribers_recursive
\* Variant: the descent stops at the children.
get_subscribers_shallow(t, root) ==
  t[root].subscribers
  \cup UNION {t[Child(root, c)].subscribers : c \in t[root].children}

RECURSIVE get_subscribers_recursive(_, _)
get_subscribers_recursive(t, root) ==
  t[root].subscribers
  \cup UNION {get_subscribers_recursive(t, Child(root, c)) : c \in t[root].children}

\* ------------------------------------------------------------------ add_subscriber_multi
RECURSIVE add_subscriber_multi(_, _, _)
add_subscriber_multi(t, subscriber_id, topics) ==
  IF topics = << >> THEN t
  ELSE add_subscriber_multi(add_subscriber(t, subscriber_id, Head(topics)),
                            subscriber_id, Tail(topics))

\* ------------------------------------------------------------------ history helpers
HasWildcard(topic_list) == \E i \in 1..Len(topic_list) : topic_list[i] \in Wildcards

TopicSet(topics) == {topics[i] : i \in 1..Len(topics)}

\* ------------------------------------------------------------------ actions
NoCollection == calls = {} /\ applied = {}

NoQuery == query = << >> /\ stack = << >> /\ visited = << >> /\ result = {}

Init ==
  /\ tree = NewTree
  /\ registered = {}
  /\ wildSubscribed = FALSE
  /\ nops = 0
  /\ NoCollection
  /\ NoQuery

Subscribe(subscriber_id, topic_list) ==
  /\ nops < MaxOps
  /\ tree' = add_subscriber(tree, subscriber_id, topic_list)
  /\ registered' = registered \cup {<<subscriber_id, topic_list>>}
  /\ wildSubscribed' = (wildSubscribed \/ HasWildcard(topic_list))
  /\ nops' = nops + 1
  /\ UNCHANGED <<orderVars, matchVars>>

SubscribeMany(subscriber_id, topics) ==
  /\ nops + Len(topics) <= MaxOps
  /\ tree' = add_subscriber_multi(tree, subscriber_id, topics)
  /\ registered' = registered \cup {<<subscriber_id, p>> : p \in TopicSet(topics)}
  /\ wildSubscribed' = (wildSubscribed \/ \E p \in TopicSet(topics) : HasWildcard(p))
  /\ nops' = nops + Len(topics)
  /\ UNCHANGED <<orderVars, matchVars>>

Unsubscribe(subscriber_id, topic_list) ==
  /\ nops < MaxOps
  /\ tree' = remove_subscriber(tree, subscriber_id, topic_list)
  /\ registered' = registered \ {<<subscriber_id, topic_list>>}
  /\ nops' = nops + 1
  /\ UNCHANGED <<wildSubscribed, orderVars, matchVars>>

\* A caller that registers and unregisters on literal topic paths.
NextTree ==
  \/ \E id \in Ids, p \in LiteralPaths : Subscribe(id, p)
  \/ \E id \in Ids, p \in LiteralPaths : Unsubscribe(id, p)

SpecTree == Init /\ [][NextTree]_vars

\* The same caller with add_subscriber_multi.
Next ==
  \/ \E id \in Ids, p \in LiteralPaths : Subscribe(id, p)
  \/ \E id \in Ids, k \in 0..MaxTopics :
        /\ nops + k <= MaxOps
        /\ \E ps \in [1..k -> LiteralPaths] : SubscribeMany(id, ps)
  \/ \E id \in Ids, p \in LiteralPaths : Unsubscribe(id, p)

Spec == Init /\ [][Next]_vars

\* A caller that passes any strings as keys, the tokens "*" and "**" among them:
\* none of the three functions looks at what a key is.
NextAny ==
  \/ \E id \in Ids, p \in AnyPaths :
        nops < MaxAnyOps /\ Subscribe(id, p)
  \/ \E id \in Ids, k \in 0..MaxTopics :
        /\ nops + k <= MaxAnyOps
        /\ \E ps \in [1..k -> AnyPaths] : SubscribeMany(id, ps)
  \/ \E id \in Ids, p \in AnyPaths :
        nops < MaxAnyOps /\ Unsubscribe(id, p)

SpecAny == Init /\ [][NextAny]_vars

\* ------------------------------------------------------------------ order of registration
\* The collections of at most k calls out of S.
RECURSIVE SetsUpTo(_, _)
SetsUpTo(S, k) ==
  IF k = 0 THEN {{}}
  ELSE LET prev == SetsUpTo(S, k - 1)
       IN  prev \cup {T \cup {x} : T \in prev, x \in S}

CallSets == SetsUpTo(Ids \X LiteralPaths, MaxCalls)

\* The calls of a collection applied to the new tree one after the other, in
\* one fixed order.
RECURSIVE RunSet(_)
RunSet(S) ==
  IF S = {} THEN NewTree
  ELSE LET c == CHOOSE x \in S : TRUE
       IN  add_subscriber(RunSet(S \ {c}), c[1], c[2])

InitOrder ==
  /\ tree = NewTree
  /\ registered = {}
  /\ wildSubscribed = FALSE
  /\ nops = 0
  /\ calls \in CallSets
  /\ applied = {}
  /\ NoQuery

\* add_subscriber with one call of the collection, whichever.
OrderSubscribe(c) ==
  /\ c \in calls \ applied
  /\ tree' = add_subscriber(tree, c[1], c[2])
  /\ registered' = registered \cup {c}
  /\ nops' = nops + 1
  /\ applied' = applied \cup {c}
  /\ UNCHANGED <<wildSubscribed, calls, matchVars>>

\* add_subscriber_multi with several calls of the collection that name the same
\* subscriber, in whichever order.
OrderSubscribeMany(subscriber_id, topics) ==
  /\ Len(topics) >= 2
  /\ \A i \in 1..Len(topics) : <<subscriber_id, topics[i]>> \in calls \ applied
  /\ \A i \in 1..Len(topics), j \in 1..Len(topics) : topics[i] = topics[j] => i = j
  /\ tree' = add_subscriber_multi(tree, subscriber_id, topics)
  /\ registered' = registered \cup {<<subscriber_id, p>> : p \in TopicSet(topics)}
  /\ nops' = nops + Len(topics)
  /\ applied' = applied \cup {<<subscriber_id, p>> : p \in TopicSet(topics)}
  /\ UNCHANGED <<wildSubscribed, calls, matchVars>>

PendingPaths(subscriber_id) == {c[2] : c \in {x \in calls \ applied : x[1] = subscriber_id}}

NextOrder ==
  \/ \E c \in calls : OrderSubscribe(c)
  \/ \E id \in Ids, k \in 2..MaxTopics :
        \E ps \in [1..k -> PendingPaths(id)] : OrderSubscribeMany(id, ps)

SpecOrder == InitOrder /\ [][NextOrder]_vars

\* ------------------------------------------------------------------ get_subscribers, call by call
\* One get_subscribers call as the interpreter runs it: an activation record per
\* invocation, holding the invocations it has still to make and the set it has
\* accumulated.  An invocation is the pair <<node, pattern>> of its arguments.

\* The invocation made outside a loop: the zero-level branch of "**", or the
\* descent of a literal into the child it names.
FirstCalls(t, root, topic_list) ==
  IF topic_list = << >> THEN << >>
  ELSE LET head == Head(topic_list)
           tail == Tail(topic_list)
       IN  IF head = "*" THEN << >>
           ELSE IF head = "**" THEN << <<root, tail>> >>
           ELSE IF head \in t[root].children THEN << <<Child(root, head), tail>> >>
           ELSE << >>

\* Variant: the loop of "**" hands the node itself the pattern instead of
\* the child.
LoopCallsStay(t, root, topic_list) ==
  IF topic_list = << >> THEN {}
  ELSE IF Head(topic_list) = "*"
  THEN {<<Child(root, c), Tail(topic_list)>> : c \in t[root].children}
  ELSE IF Head(topic_list) = "**"
  THEN {<<root, topic_list>> : c \in t[root].children}
  ELSE {}

\* Variant: the loop of "**" asks each child twice, with the whole pattern and
\* with its tail.
LoopCallsTwice(t, root, topic_list) ==
  IF topic_list = << >> THEN {}
  ELSE IF Head(topic_list) = "*"
  THEN {<<Child(root, c), Tail(topic_list)>> : c \in t[root].children}
  ELSE IF Head(topic_list) = "**"
  THEN {<<Child(root, c), topic_list>> : c \in t[root].children}
       \cup {<<Child(root, c), Tail(topic_list)>> : c \in t[root].children}
  ELSE {}

\* The invocations made by the loop over root.children.values().
LoopCalls(t, root, topic_list) ==
  IF topic_list = << >> THEN {}
  ELSE IF Head(topic_list) = "*"
  THEN {<<Child(root, c), Tail(topic_list)>> : c \in t[root].children}
  ELSE IF Head(topic_list) = "**"
  THEN {<<Child(root, c), topic_list>> : c \in t[root].children}
  ELSE {}

Activation(t, root, topic_list) ==
  [node        |-> root,
   topic_list  |-> topic_list,
   first       |-> FirstCalls(t, root, topic_list),
   loop        |-> LoopCalls(t, root, topic_list),
   subscribers |-> IF topic_list = << >> THEN t[root].subscribers ELSE {}]

CountOf(v, x) == IF x \in DOMAIN v THEN v[x] ELSE 0

Bump(v, x) == [y \in DOMAIN v \cup {x} |-> CountOf(v, y) + (IF y = x THEN 1 ELSE 0)]

Top == stack[Len(stack)]

\* The trees a query is run on: the complete trees over the literals, down to
\* each depth, every node with one subscriber.  Every tree over these keys is
\* one of them with nodes left out.
SubscriberAt(p) == IF p = << >> \/ p[Len(p)] = "a" THEN "s1" ELSE "s2"

FullCalls(d) == {<<SubscriberAt(p), p>> : p \in SeqsUpTo(Literals, d)}

\* The tree the calls FullCalls(d) leave, in whichever order they are made.
FullTree(d) ==
  [n \in SeqsUpTo(Literals, d) |->
     [children    |-> IF Len(n) < d THEN Literals ELSE {},
      subscribers |-> {SubscriberAt(n)}]]

InitMatch ==
  /\ \E d \in 0..MaxLen :
        /\ tree = FullTree(d)
        /\ registered = FullCalls(d)
        /\ nops = Cardinality(FullCalls(d))
  /\ wildSubscribed = FALSE
  /\ NoCollection
  /\ query \in Patterns
  /\ stack = <<Activation(tree, Root, query)>>
  /\ visited = Bump(<< >>, <<Root, query>>)
  /\ result = {}

\* subscribers |= get_subscribers(root, tail), or
\* return get_subscribers(root.children[head], tail)
CallFirst ==
  /\ stack # << >>
  /\ Top.first # << >>
  /\ LET c == Top.first[1]
     IN  /\ stack' = Append([stack EXCEPT ![Len(stack)].first = << >>],
                            Activation(tree, c[1], c[2]))
         /\ visited' = Bump(visited, c)
  /\ UNCHANGED <<treeVars, orderVars, query, result>>

\* for child in root.children.values(): subscribers |= get_subscribers(child, ...),
\* the children taken in whichever order the dict gives them
CallLoop(c) ==
  /\ stack # << >>
  /\ Top.first = << >>
  /\ c \in Top.loop
  /\ stack' = Append([stack EXCEPT ![Len(stack)].loop = @ \ {c}],
                     Activation(tree, c[1], c[2]))
  /\ visited' = Bump(visited, c)
  /\ UNCHANGED <<treeVars, orderVars, query, result>>

\* return: the caller unites the returned set with its own, the outermost
\* invocation hands it out
Return ==
  /\ stack # << >>
  /\ Top.first = << >>
  /\ Top.loop = {}
  /\ IF Len(stack) = 1
     THEN /\ stack' = << >>
          /\ result' = Top.subscribers
     ELSE /\ stack' = [SubSeq(stack, 1, Len(stack) - 1)
                         EXCEPT ![Len(stack) - 1].subscribers = @ \cup Top.subscribers]
          /\ UNCHANGED result
  /\ UNCHANGED <<treeVars, orderVars, query, visited>>

NextMatch ==
  \/ CallFirst
  \/ \E c \in Nodes(tree) \X Patterns : CallLoop(c)
  \/ Return

SpecMatch == InitMatch /\ [][NextMatch]_vars

\* The call is synchronous: the interpreter runs it on to its return.
SpecMatchFair == SpecMatch /\ WF_vars(NextMatch)

\* ------------------------------------------------------------------ reference semantics
\* A key path matches a pattern when the pattern's tokens can be laid over the
\* path left to right: a literal over the equal segment, "*" over any one
\* segment, "**" over any run of zero or more segments.
RECURSIVE PathMatches(_, _)
PathMatches(path, pattern) ==
  IF pattern = << >> THEN path = << >>
  ELSE IF Head(pattern) = "**"
  THEN \/ PathMatches(path, Tail(pattern))
       \/ path # << >> /\ PathMatches(Tail(path), pattern)
  ELSE /\ path # << >>
       /\ Head(pattern) = "*" \/ Head(pattern) = Head(path)
       /\ PathMatches(Tail(path), Tail(pattern))

Leaf(t, n) == t[n].children = {} /\ t[n].subscribers = {}

\* ------------------------------------------------------------------ C1
\* C1: on every tree built by add/remove with literal keys, get_subscribers from
\* the root returns, for every pattern over literals, "*" and "**", the union of
\* the subscriber sets of exactly the nodes whose key path matches the pattern
\* (the empty set when none does).
C1_MatchEqualsReference ==
  \A pattern \in Patterns :
     LET got == get_subscribers(tree, Root, pattern)
     IN  \A id \in Ids :
           id \in got <=> \E n \in Nodes(tree) :
                             id \in tree[n].subscribers /\ PathMatches(n, pattern)

\* A tree two levels deep on which "*" and "**" give different, non-empty answers.
C1_Witness ==
  /\ \E n \in Nodes(tree) : Len(n) = 2 /\ tree[n].subscribers # {}
  /\ get_subscribers(tree, Root, <<"*">>) # {}
  /\ get_subscribers(tree, Root, <<"**">>) # get_subscribers(tree, Root, <<"*">>)
  /\ get_subscribers(tree, Root, <<"*", "*">>) # {}

\* ------------------------------------------------------------------ C2
\* C2: for every node n of the tree, get_subscribers_recursive(n) is the set
\* get_subscribers(n, ["**"]) returns, and both are the subscribers at n together
\* with those at every descendant of n.
C2_SubtreeEqualsDoubleStar ==
  \A n \in Nodes(tree) :
     /\ get_subscribers_recursive(tree, n) = get_subscribers(tree, n, <<"**">>)
     /\ get_subscribers_recursive(tree, n) =
          UNION {tree[m].subscribers : m \in {k \in Nodes(tree) : IsPrefix(n, k)}}

\* A node below the root whose subtree holds a subscriber the node itself lacks.
C2_Witness ==
  \E n \in Nodes(tree) :
     /\ n # Root
     /\ get_subscribers_recursive(tree, n) # tree[n].subscribers
     /\ \E m \in Nodes(tree) : Len(m) = 2 /\ tree[m].subscribers # {}

\* ------------------------------------------------------------------ C3
\* C3: after any sequence of add_subscriber, add_subscriber_multi and
\* remove_subscriber calls on literal paths, get_subscribers on a literal path p
\* returns exactly the ids whose latest add/remove call on p was an add.
C3_ExactMatchIsRegistered ==
  \A p \in LiteralPaths :
     get_subscribers(tree, Root, p) = {id \in Ids : <<id, p>> \in registered}

\* A node emptied by remove_subscriber (a childless node without subscribers is
\* never what add_subscriber leaves) while the same id stays registered at
\* another path.
C3_Witness ==
  \E p \in Nodes(tree), q \in Nodes(tree) :
     /\ p # Root /\ q # p
     /\ Leaf(tree, p)
     /\ get_subscribers(tree, Root, p) = {}
     /\ <<"s1", q>> \in registered
     /\ get_subscribers(tree, Root, q) = {"s1"}

\* ------------------------------------------------------------------ C4
NoSuchPath(t, topic_list) == topic_list \notin Nodes(t)

\* C4: remove_subscriber leaves the whole tree (the nodes and every node's
\* subscribers) as it was when a key of the path has no child node or the id is
\* not in the terminal node's set; no node is created on the way.
C4_RemoveNoOp ==
  \A id \in Ids, p \in LiteralPaths :
     (NoSuchPath(tree, p) \/ id \notin tree[p].subscribers)
        => remove_subscriber(tree, id, p) = tree

\* One call was made, and the tree is the new tree: the call was a
\* remove_subscriber that found nothing to remove.
C4_Witness ==
  /\ nops = 1
  /\ tree = NewTree
  /\ registered = {}

\* ------------------------------------------------------------------ C5
Prefixes(topic_list) == {SubSeq(topic_list, 1, k) : k \in 0..Len(topic_list)}

\* C5: from every reachable tree, add_subscriber yields the nodes there were
\* and exactly the prefixes of its path besides, and remove_subscriber yields the
\* nodes there were: no call removes a node, whatever it leaves empty.
C5_NodesOnlyGrow ==
  \A id \in Ids, p \in LiteralPaths :
     /\ Nodes(add_subscriber(tree, id, p)) = Nodes(tree) \cup Prefixes(p)
     /\ Nodes(remove_subscriber(tree, id, p)) = Nodes(tree)

\* A node left without subscribers and without children is still in the tree,
\* two levels down.
C5_Witness ==
  \E n \in Nodes(tree) : Len(n) = 2 /\ Leaf(tree, n) /\ registered = {}

\* ------------------------------------------------------------------ C6
\* C6: add_subscriber applied twice with the same id and path leaves the tree
\* that one application leaves.
C6_AddIdempotent ==
  \A id \in Ids, p \in LiteralPaths :
     add_subscriber(add_subscriber(tree, id, p), id, p) = add_subscriber(tree, id, p)

\* A registration is in place, so that adding it again meets the id in the set.
C6_Witness ==
  \E id \in Ids, p \in LiteralPaths :
     /\ p # Root
     /\ <<id, p>> \in registered
     /\ id \in tree[p].subscribers
     /\ add_subscriber(tree, id, p) = tree

\* ------------------------------------------------------------------ C10
NoWildcardKeys == \A n \in Nodes(tree) : tree[n].children \cap Wildcards = {}

\* C10 as claimed: whatever strings the callers pass as keys, no child key of
\* any node is "*" or "**".
C10_NoWildcardKeyEver == NoWildcardKeys

\* C10 as amended: no child key is "*" or "**" as long as no add_subscriber or
\* add_subscriber_multi call was given a path with such a token (the paths given
\* to remove_subscriber may hold any).
C10_NoWildcardKeyUnlessAdded == ~wildSubscribed => NoWildcardKeys

\* Literal paths only were added, two levels deep, and the budget is spent.
C10_Witness ==
  /\ ~wildSubscribed
  /\ nops = MaxAnyOps
  /\ \E n \in Nodes(tree) : Len(n) = 2 /\ tree[n].subscribers # {}

\* ------------------------------------------------------------------ C7
\* C7: when the calls of a collection have all been applied to an empty tree,
\* in whichever order and through add_subscriber or add_subscriber_multi,
\* get_subscribers returns for every pattern what it returns on the tree built
\* from the same calls in one fixed order.
C7_OrderIndependent ==
  applied = calls =>
    \A pattern \in Patterns :
       get_subscribers(tree, Root, pattern) = get_subscribers(RunSet(calls), Root, pattern)

\* Two calls applied, by different subscribers on one path below the root.
C7_Witness ==
  /\ applied = calls
  /\ Cardinality(calls) = 2
  /\ \E p \in Nodes(tree) : p # Root /\ tree[p].subscribers = Ids

\* ------------------------------------------------------------------ C8
RECURSIVE Height(_, _)
Height(t, n) ==
  IF t[n].children = {} THEN 0
  ELSE LET hs == {Height(t, Child(n, c)) : c \in t[n].children}
       IN  1 + CHOOSE h \in hs : \A k \in hs : k <= h

Measure(f) == Len(f.topic_list) + Height(tree, f.node)

\* Each invocation under way was made by the one below it on the stack with a
\* shorter pattern or at a child, and with a smaller measure.
Descends ==
  \A i \in 2..Len(stack) :
     /\ Measure(stack[i]) < Measure(stack[i - 1])
     /\ \/ /\ stack[i].topic_list = Tail(stack[i - 1].topic_list)
           /\ stack[i].node = stack[i - 1].node
        \/ /\ stack[i].topic_list = Tail(stack[i - 1].topic_list)
           /\ \E c \in tree[stack[i - 1].node].children :
                 stack[i].node = Child(stack[i - 1].node, c)
        \/ /\ stack[i].topic_list = stack[i - 1].topic_list
           /\ \E c \in tree[stack[i - 1].node].children :
                 stack[i].node = Child(stack[i - 1].node, c)

Returned == stack = << >>

\* C8: get_subscribers terminates on every tree and pattern: every recursive
\* call shortens the pattern or moves to a child, so that pattern length plus
\* node height strictly decreases from caller to callee, and the outermost call
\* returns, with the set get_subscribers denotes.
C8_MatchTerminates ==
  /\ [](Descends /\ (Returned => result = get_subscribers(tree, Root, query)))
  /\ <>Returned

\* A pattern of two "**" has returned a non-empty set on the tree two levels deep.
C8_Witness ==
  /\ Returned
  /\ query = <<"**", "**">>
  /\ result = Ids
  /\ \E n \in Nodes(tree) : Len(n) = 2

\* ------------------------------------------------------------------ C9
DoubleStars(pattern) == Cardinality({i \in 1..Len(pattern) : pattern[i] = "**"})

EachNodeOnce ==
  \A n \in Nodes(tree) : CountOf(visited, <<n, <<"**">>>>) = 1

\* C9 as claimed: whatever the pattern, no pair of a node and a remaining
\* pattern is the argument of more than one invocation, and when ["**"] has
\* returned, every node was invoked with it exactly once.
C9_VisitedAtMostOnce ==
  /\ \A x \in DOMAIN visited : visited[x] <= 1
  /\ (Returned /\ query = <<"**">>) => EachNodeOnce

\* C9 as amended: the same for the patterns with at most one "**".
C9_VisitedAtMostOnceOneStar ==
  /\ DoubleStars(query) <= 1 => \A x \in DOMAIN visited : visited[x] <= 1
  /\ (Returned /\ query = <<"**">>) => EachNodeOnce

\* ["**"] has returned from the tree two levels deep.
C9_Witness ==
  /\ Returned
  /\ query = <<"**">>
  /\ Cardinality(Nodes(tree)) = 7
  /\ Cardinality(DOMAIN visited) = 14

====
